---- MODULE Spec2Model ----
(***************************************************************************)
(* Hotel management system (src/CA.py): the room inventory (rooms.txt),    *)
(* the occupancy registry (customers.txt), the three charge ledgers        *)
(* (food_orders.txt, services.txt, housekeeping.txt) and the handlers that *)
(* read and rewrite them.  Every handler is cut at its file operations and *)
(* its modal dialogs, so that two running instances of the program that    *)
(* share the data files can interleave exactly where the code allows it.   *)
(*                                                                         *)
(* A line of a data file is a record of its comma-separated fields; the    *)
(* phone number and the timestamps are written but never read back and are *)
(* left out.  Field values are drawn from comma-free strings.              *)
(***************************************************************************)
EXTENDS Integers, Sequences, FiniteSets, TLC

\* ------------------------------------------------------------------ bounds
\* most lines of customers.txt, and most lines of the three ledgers together
MaxCustomers == 2
MaxCharges == 1

\* ------------------------------------------------------------------ inputs
\* the running instances of the program; the names, ID proofs and day counts typed in
Procs == {1, 2}
Names == {"Ann", "ann", "Bob"}
IdProofs == {"P1", "P2"}
Guests == {<<"Ann", "P1">>, <<"ann", "P1">>, <<"Ann", "P2">>, <<"Bob", "P1">>}
Nights == {1, 2}
NameInputs == Names \cup {""}
IdInputs == IdProofs \cup {""}
DaysInputs == {-1, 0} \cup Nights
PhoneInputs == {"", "555"}

\* str.lower() on the names in use
Lower(s) == CASE s = "Ann" -> "ann" [] s = "Bob" -> "bob" [] OTHER -> s

\* ------------------------------------------------------------------ data
Room(n, t, s, p) == [number |-> n, type |-> t, status |-> s, price |-> p]

SeedRooms ==
  << Room("101", "Normal", "Available", 1000),
     Room("102", "Normal", "Available", 1000),
     Room("103", "Normal", "Available", 1000),
     Room("201", "Deluxe", "Available", 1800),
     Room("202", "Deluxe", "Available", 1800),
     Room("203", "Deluxe", "Available", 1800),
     Room("301", "Suite", "Available", 3000),
     Room("302", "Suite", "Available", 3000) >>

\* the first entries of the three menus, in menu order
FoodMenu == << [item |-> "Pizza", price |-> 450] >>
ItemsMenu == << [item |-> "Extra Towels", price |-> 50] >>
HousekeepingMenu == << [item |-> "Room Cleaning", price |-> 200] >>

NoRoom == ""

\* rooms .. housekeeping: the lines of the five data files, in file order
\* pc, loc: where each instance stands in its handler, and the handler's locals
\* hist: the check-in or the start of the program that completed last, if no
\*       other operation began since, and the rooms of the records that the
\*       check-out in progress has removed from customers.txt
VARIABLES rooms, customers, food_orders, services, housekeeping, pc, loc, hist

files == <<rooms, customers, food_orders, services, housekeeping>>
ledgers == <<food_orders, services, housekeeping>>
vars == <<rooms, customers, food_orders, services, housekeeping, pc, loc, hist>>

\* Matches comparing the names only
Matches_name_only(data, name, id_proof) == Lower(data.name) = Lower(name)

\* Matches comparing the ID proofs only
Matches_id_only(data, name, id_proof) == data.id = id_proof

\* identity test used by every scan of a data file
Matches(data, name, id_proof) == Lower(data.name) = Lower(name) /\ data.id = id_proof

\* the lines of a file that belong to an identity
Hits(lines, name, id_proof) == {k \in 1 .. Len(lines) : Matches(lines[k], name, id_proof)}

\* the last of a set of line numbers (a scan that keeps its latest hit), 0 if none
LastIndex(hits) == IF hits = {} THEN 0 ELSE CHOOSE i \in hits : \A j \in hits : i >= j

\* FirstIndex for a scan without its break: the latest hit is kept
FirstIndex_no_break(hits) == LastIndex(hits)

\* the first of a set of line numbers (a scan that stops at its first hit), 0 if none
FirstIndex(hits) == IF hits = {} THEN 0 ELSE CHOOSE i \in hits : \A j \in hits : i <= j

\* Free without the test of the status field
Free_any_status(lines, room_type) == {k \in 1 .. Len(lines) : lines[k].type = room_type}

\* the Available rooms of a type among the lines of rooms.txt
Free(lines, room_type) ==
  {k \in 1 .. Len(lines) : lines[k].type = room_type /\ lines[k].status = "Available"}

\* the lines of rooms.txt with room number n
Numbered(lines, n) == {k \in 1 .. Len(lines) : lines[k].number = n}

RECURSIVE SumAmounts(_)
SumAmounts(seq) == IF seq = <<>> THEN 0 ELSE Head(seq).total + SumAmounts(Tail(seq))

RECURSIVE SumCosts(_)
SumCosts(seq) == IF seq = <<>> THEN 0 ELSE Head(seq).cost + SumCosts(Tail(seq))

\* get_customer_room without its return inside the loop: the latest match is reported
get_customer_room_last(name, id_proof) ==
  LET i == LastIndex(Hits(customers, name, id_proof))
  IN IF i = 0 THEN NoRoom ELSE customers[i].room

get_customer_room(name, id_proof) ==
  LET i == FirstIndex(Hits(customers, name, id_proof))
  IN IF i = 0 THEN NoRoom ELSE customers[i].room

Max(a, b) == IF a >= b THEN a ELSE b

calculate_bill(name, id_proof) ==
  LET Hit(data) == Matches(data, name, id_proof)
      i == FirstIndex(Hits(customers, name, id_proof))
      room_total == IF i = 0 THEN 0 ELSE customers[i].total
      room_items == IF i = 0 THEN <<>>
                    ELSE << [type |-> customers[i].type, nights |-> customers[i].days,
                             per_night |-> customers[i].total \div Max(1, customers[i].days),
                             amount |-> customers[i].total] >>
      food_items == SelectSeq(food_orders, Hit)
      service_items == SelectSeq(services, Hit)
      housekeeping_items == SelectSeq(housekeeping, Hit)
      food_total == SumAmounts(food_items)
      services_total == SumAmounts(service_items)
      housekeeping_total == SumCosts(housekeeping_items)
      Item(data) == [desc |-> data.item, qty |-> data.qty, amount |-> data.total]
      Service(data) == [desc |-> data.item, amount |-> data.cost]
  IN [ room_total |-> room_total,
       food_total |-> food_total,
       services_total |-> services_total,
       housekeeping_total |-> housekeeping_total,
       grand_total |-> room_total + food_total + services_total + housekeeping_total,
       room_items |-> room_items,
       food_items |-> [k \in 1 .. Len(food_items) |-> Item(food_items[k])],
       service_items |-> [k \in 1 .. Len(service_items) |-> Item(service_items[k])],
       housekeeping_items |-> [k \in 1 .. Len(housekeeping_items) |-> Service(housekeeping_items[k])] ]

\* ------------------------------------------------------------------ process state
NoLoc == [name |-> "", id |-> "", rtype |-> "", days |-> 0, room |-> "", total |-> 0,
          lines |-> <<>>, data |-> <<>>, bill |-> <<>>]
NoHist == [op |-> "none", name |-> "", id |-> "", room |-> "", removed |-> {}]

initialize_files ==
  /\ rooms = SeedRooms
  /\ customers = <<>>
  /\ food_orders = <<>>
  /\ services = <<>>
  /\ housekeeping = <<>>

Init ==
  /\ initialize_files
  /\ pc = [p \in Procs |-> "menu"]
  /\ loc = [p \in Procs |-> NoLoc]
  /\ hist = NoHist

Goto(p, label, l) == pc' = [pc EXCEPT ![p] = label] /\ loc' = [loc EXCEPT ![p] = l]

\* ------------------------------------------------------------------ check-in
\* MarkAt without the "and not booked" of the scan: every room of the type is marked
MarkAt_same_type(lines, i, s) ==
  [k \in 1 .. Len(lines) |->
     IF lines[k].type = lines[i].type THEN [lines[k] EXCEPT !.status = s] ELSE lines[k]]

\* the inventory with the room at index i marked s
MarkAt(lines, i, s) == [lines EXCEPT ![i] = [@ EXCEPT !.status = s]]

\* the four entries of the booking form pass the two checks of process_booking
Filled(name, id_proof, days, phone) == name # "" /\ id_proof # "" /\ phone # "" /\ days > 0

\* "All fields are required!" / "Invalid number of days!"
process_booking_invalid(p, name, id_proof, days, phone) ==
  /\ pc[p] = "menu"
  /\ ~Filled(name, id_proof, days, phone)
  /\ Goto(p, "booking_error", NoLoc)
  /\ UNCHANGED <<files, hist>>

\* the scan of rooms.txt finds no Available room of the type:
\* "No <type> rooms available!"
process_booking_unavailable(p, name, id_proof, room_type, days, phone) ==
  /\ pc[p] = "menu"
  /\ Filled(name, id_proof, days, phone)
  /\ FirstIndex(Free(rooms, room_type)) = 0
  /\ Goto(p, "no_rooms", [NoLoc EXCEPT !.rtype = room_type])
  /\ UNCHANGED <<files, hist>>

\* process_booking_offer without the two checks of the form
process_booking_offer_unchecked(p, name, id_proof, room_type, days, phone) ==
  /\ pc[p] = "menu"
  /\ LET i == FirstIndex(Free(rooms, room_type))
     IN /\ i # 0
        /\ Goto(p, "confirm_booking",
                [NoLoc EXCEPT !.name = name, !.id = id_proof, !.rtype = room_type,
                              !.days = days, !.room = rooms[i].number,
                              !.total = rooms[i].price * days, !.lines = rooms])
  /\ hist' = NoHist
  /\ UNCHANGED files

\* process_booking_offer quoting the price of one night as the total
process_booking_offer_one_night(p, name, id_proof, room_type, days, phone) ==
  /\ pc[p] = "menu"
  /\ Filled(name, id_proof, days, phone)
  /\ LET i == FirstIndex(Free(rooms, room_type))
     IN /\ i # 0
        /\ Goto(p, "confirm_booking",
                [NoLoc EXCEPT !.name = name, !.id = id_proof, !.rtype = room_type,
                              !.days = days, !.room = rooms[i].number,
                              !.total = rooms[i].price, !.lines = rooms])
  /\ hist' = NoHist
  /\ UNCHANGED files

\* rooms.txt is read and the first Available room of the type is offered
process_booking_offer(p, name, id_proof, room_type, days, phone) ==
  /\ pc[p] = "menu"
  /\ Filled(name, id_proof, days, phone)
  /\ LET i == FirstIndex(Free(rooms, room_type))
     IN /\ i # 0
        /\ Goto(p, "confirm_booking",
                [NoLoc EXCEPT !.name = name, !.id = id_proof, !.rtype = room_type,
                              !.days = days, !.room = rooms[i].number,
                              !.total = rooms[i].price * days, !.lines = rooms])
  /\ hist' = NoHist
  /\ UNCHANGED files

\* process_booking_decline after data[2] = "Booked": the inventory is written
\* back with the offered room marked
process_booking_decline_marked(p) ==
  /\ pc[p] = "confirm_booking"
  /\ rooms' = MarkAt(loc[p].lines, FirstIndex(Numbered(loc[p].lines, loc[p].room)), "Booked")
  /\ Goto(p, "booking_declined", [NoLoc EXCEPT !.rtype = loc[p].rtype, !.room = loc[p].room])
  /\ UNCHANGED <<customers, ledgers, hist>>

\* "Confirm booking?" answered no: the handler returns, the form stays up
process_booking_decline(p) ==
  /\ pc[p] = "confirm_booking"
  /\ Goto(p, "booking_declined", [NoLoc EXCEPT !.rtype = loc[p].rtype, !.room = loc[p].room])
  /\ UNCHANGED <<files, hist>>

\* process_booking_append without data[2] = "Booked": the room keeps its status
process_booking_append_unmarked(p, most) ==
  /\ pc[p] = "confirm_booking"
  /\ Len(customers) < most
  /\ LET l == loc[p]
     IN /\ customers' = Append(customers,
                               [name |-> l.name, id |-> l.id, room |-> l.room,
                                type |-> l.rtype, days |-> l.days, total |-> l.total])
        /\ Goto(p, "booked_dialog", l)
  /\ UNCHANGED <<rooms, ledgers, hist>>

\* "Confirm booking?" answered yes: the record is appended to customers.txt
process_booking_append(p, most) ==
  /\ pc[p] = "confirm_booking"
  /\ Len(customers) < most
  /\ LET l == loc[p]
         i == FirstIndex(Numbered(l.lines, l.room))
     IN /\ customers' = Append(customers,
                               [name |-> l.name, id |-> l.id, room |-> l.room,
                                type |-> l.rtype, days |-> l.days, total |-> l.total])
        /\ Goto(p, "booked_dialog", [l EXCEPT !.lines = MarkAt(l.lines, i, "Booked")])
  /\ UNCHANGED <<rooms, ledgers, hist>>

\* after the success dialog the inventory read earlier is written back
process_booking_write(p) ==
  /\ pc[p] = "booked_dialog"
  /\ rooms' = loc[p].lines
  /\ hist' = [NoHist EXCEPT !.op = "check_in", !.name = loc[p].name, !.id = loc[p].id,
                            !.room = loc[p].room]
  /\ Goto(p, "menu", NoLoc)
  /\ UNCHANGED <<customers, ledgers>>

\* ------------------------------------------------------------------ check-out
\* "Both fields are required!"
process_checkout_invalid(p, name, id_proof) ==
  /\ pc[p] = "menu"
  /\ name = "" \/ id_proof = ""
  /\ Goto(p, "checkout_error", NoLoc)
  /\ UNCHANGED <<files, hist>>

\* "Customer not found!"
process_checkout_not_found(p, name, id_proof) ==
  /\ pc[p] = "menu"
  /\ name # "" /\ id_proof # ""
  /\ Hits(customers, name, id_proof) = {}
  /\ Goto(p, "checkout_not_found", [NoLoc EXCEPT !.name = name, !.id = id_proof])
  /\ UNCHANGED <<files, hist>>

\* process_checkout_scan keeping the first match as customer_data / freed_room
process_checkout_scan_first(p, name, id_proof) ==
  /\ pc[p] = "menu"
  /\ name # "" /\ id_proof # ""
  /\ LET Miss(data) == ~Matches(data, name, id_proof)
         first == FirstIndex(Hits(customers, name, id_proof))
     IN /\ first # 0
        /\ Goto(p, "write_customers",
                [NoLoc EXCEPT !.name = name, !.id = id_proof,
                              !.room = customers[first].room,
                              !.data = << customers[first] >>,
                              !.lines = SelectSeq(customers, Miss)])
  /\ UNCHANGED <<files, hist>>

\* process_checkout_scan going on to the rewrite without its "found" test
process_checkout_scan_unguarded(p, name, id_proof) ==
  /\ pc[p] = "menu"
  /\ name # "" /\ id_proof # ""
  /\ LET Miss(data) == ~Matches(data, name, id_proof)
         last == LastIndex(Hits(customers, name, id_proof))
     IN Goto(p, "write_customers",
             [NoLoc EXCEPT !.name = name, !.id = id_proof,
                           !.room = IF last = 0 THEN NoRoom ELSE customers[last].room,
                           !.data = IF last = 0 THEN <<>> ELSE << customers[last] >>,
                           !.lines = SelectSeq(customers, Miss)])
  /\ UNCHANGED <<files, hist>>

\* customers.txt is read: every matching line is dropped, the last match is kept
\* as customer_data / freed_room
process_checkout_scan(p, name, id_proof) ==
  /\ pc[p] = "menu"
  /\ name # "" /\ id_proof # ""
  /\ LET Miss(data) == ~Matches(data, name, id_proof)
         last == LastIndex(Hits(customers, name, id_proof))
     IN /\ last # 0
        /\ Goto(p, "write_customers",
                [NoLoc EXCEPT !.name = name, !.id = id_proof,
                              !.room = customers[last].room,
                              !.data = << customers[last] >>,
                              !.lines = SelectSeq(customers, Miss)])
  /\ UNCHANGED <<files, hist>>

\* the rooms of the lines of customers.txt that a rewrite with `kept` removes
Dropped(lines, kept) ==
  {lines[k].room : k \in {n \in 1 .. Len(lines) : \A j \in 1 .. Len(kept) : kept[j] # lines[n]}}

\* process_checkout_write_customers deleting the guest's ledger lines as well
process_checkout_write_customers_cascade(p) ==
  /\ pc[p] = "write_customers"
  /\ customers' = loc[p].lines
  /\ LET Miss(data) == ~Matches(data, loc[p].name, loc[p].id)
     IN /\ food_orders' = SelectSeq(food_orders, Miss)
        /\ services' = SelectSeq(services, Miss)
        /\ housekeeping' = SelectSeq(housekeeping, Miss)
  /\ hist' = [hist EXCEPT !.removed = Dropped(customers, loc[p].lines)]
  /\ Goto(p, "read_rooms", [loc[p] EXCEPT !.lines = <<>>])
  /\ UNCHANGED rooms

process_checkout_write_customers(p) ==
  /\ pc[p] = "write_customers"
  /\ customers' = loc[p].lines
  /\ hist' = [hist EXCEPT !.removed = Dropped(customers, loc[p].lines)]
  /\ Goto(p, "read_rooms", [loc[p] EXCEPT !.lines = <<>>])
  /\ UNCHANGED <<rooms, ledgers>>

\* process_checkout_read_rooms filtering the freed room out, as the scan of
\* customers.txt does with the guest's lines
process_checkout_read_rooms_drop(p) ==
  /\ pc[p] = "read_rooms"
  /\ LET Other(data) == data.number # loc[p].room
     IN Goto(p, "write_rooms", [loc[p] EXCEPT !.lines = SelectSeq(rooms, Other)])
  /\ UNCHANGED <<files, hist>>

process_checkout_read_rooms(p) ==
  /\ pc[p] = "read_rooms"
  /\ Goto(p, "write_rooms",
          [loc[p] EXCEPT !.lines =
             [k \in 1 .. Len(rooms) |->
                IF rooms[k].number = loc[p].room
                THEN [rooms[k] EXCEPT !.status = "Available"] ELSE rooms[k]]])
  /\ UNCHANGED <<files, hist>>

process_checkout_write_rooms(p) ==
  /\ pc[p] = "write_rooms"
  /\ rooms' = loc[p].lines
  /\ Goto(p, "checkout_bill", [loc[p] EXCEPT !.lines = <<>>])
  /\ UNCHANGED <<customers, ledgers, hist>>

\* the final bill is computed from the files as they are now and shown
process_checkout_bill(p) ==
  /\ pc[p] = "checkout_bill"
  /\ Goto(p, "checkout_dialog",
          [loc[p] EXCEPT !.bill = << calculate_bill(loc[p].name, loc[p].id) >>])
  /\ UNCHANGED <<files, hist>>

process_checkout_done(p) ==
  /\ pc[p] = "checkout_dialog"
  /\ Goto(p, "menu", NoLoc)
  /\ hist' = NoHist
  /\ UNCHANGED files

\* the error dialog of a check-in or check-out is closed, or the form is left
\* after a declined offer
dismiss(p) ==
  /\ pc[p] \in {"booking_error", "no_rooms", "checkout_error", "checkout_not_found",
              "booking_declined"}
  /\ Goto(p, "menu", NoLoc)
  /\ UNCHANGED <<files, hist>>

\* ------------------------------------------------------------------ bill and charges
Screens == {"view_bill", "order_food", "order_non_food", "request_housekeeping"}

\* "Both fields required!"
verify_invalid(p, name, id_proof) ==
  /\ pc[p] = "menu"
  /\ name = "" \/ id_proof = ""
  /\ Goto(p, "verify_error", NoLoc)
  /\ UNCHANGED <<files, hist>>

\* "Customer not found! Please check-in first."
verify_failed(p, name, id_proof) ==
  /\ pc[p] = "menu"
  /\ name # "" /\ id_proof # ""
  /\ get_customer_room(name, id_proof) = NoRoom
  /\ Goto(p, "verify_not_found", [NoLoc EXCEPT !.name = name, !.id = id_proof])
  /\ UNCHANGED <<files, hist>>

\* the verification dialog is closed without a verified customer: the screen
\* that asked for it returns at once
verify_closed(p) ==
  /\ pc[p] \in {"verify_error", "verify_not_found"}
  /\ Goto(p, "menu", NoLoc)
  /\ UNCHANGED <<files, hist>>

\* verify letting every filled-in identity through
verify_unchecked(p, name, id_proof, screen) ==
  /\ pc[p] = "menu"
  /\ name # "" /\ id_proof # ""
  /\ Goto(p, screen, [NoLoc EXCEPT !.name = name, !.id = id_proof,
                                   !.room = get_customer_room(name, id_proof)])
  /\ hist' = NoHist
  /\ UNCHANGED files

verify(p, name, id_proof, screen) ==
  /\ pc[p] = "menu"
  /\ name # "" /\ id_proof # ""
  /\ get_customer_room(name, id_proof) # NoRoom
  /\ Goto(p, screen, [NoLoc EXCEPT !.name = name, !.id = id_proof,
                                   !.room = get_customer_room(name, id_proof)])
  /\ hist' = NoHist
  /\ UNCHANGED files

view_bill(p) ==
  /\ pc[p] = "view_bill"
  /\ Goto(p, "bill_screen",
          [loc[p] EXCEPT !.bill = << calculate_bill(loc[p].name, loc[p].id) >>])
  /\ UNCHANGED <<files, hist>>

\* the back button of the bill and order screens
back(p) ==
  /\ pc[p] \in {"bill_screen", "order_food", "order_non_food", "request_housekeeping"}
  /\ Goto(p, "menu", NoLoc)
  /\ UNCHANGED <<files, hist>>

Charges == Len(food_orders) + Len(services) + Len(housekeeping)

\* the selected lines of a menu, in menu order
RECURSIVE Orders(_, _, _)
Orders(menu, qty, k) ==
  IF k > Len(menu) THEN <<>>
  ELSE (IF qty[k] > 0 THEN << [item |-> menu[k].item, qty |-> qty[k], price |-> menu[k].price] >>
        ELSE <<>>) \o Orders(menu, qty, k + 1)

\* ChargeLines writing the unit price as the line total
ChargeLines_unit_price(l, orders) ==
  [k \in 1 .. Len(orders) |->
     [name |-> l.name, id |-> l.id, room |-> l.room, item |-> orders[k].item,
      qty |-> orders[k].qty, price |-> orders[k].price,
      total |-> orders[k].price]]

ChargeLines(l, orders) ==
  [k \in 1 .. Len(orders) |->
     [name |-> l.name, id |-> l.id, room |-> l.room, item |-> orders[k].item,
      qty |-> orders[k].qty, price |-> orders[k].price,
      total |-> orders[k].price * orders[k].qty]]

\* "Please select at least one item!", or "Confirm order?" answered no
place_order_none(p) ==
  /\ pc[p] \in {"order_food", "order_non_food"}
  /\ UNCHANGED vars

order_food_place_order(p, qty) ==
  /\ pc[p] = "order_food"
  /\ LET orders == Orders(FoodMenu, qty, 1)
     IN /\ orders # <<>>
        /\ Charges + Len(orders) <= MaxCharges
        /\ food_orders' = food_orders \o ChargeLines(loc[p], orders)
  /\ Goto(p, "menu", NoLoc)
  /\ UNCHANGED <<rooms, customers, services, housekeeping, hist>>

order_non_food_place_order(p, qty) ==
  /\ pc[p] = "order_non_food"
  /\ LET orders == Orders(ItemsMenu, qty, 1)
     IN /\ orders # <<>>
        /\ Charges + Len(orders) <= MaxCharges
        /\ services' = services \o ChargeLines(loc[p], orders)
  /\ Goto(p, "menu", NoLoc)
  /\ UNCHANGED <<rooms, customers, food_orders, housekeeping, hist>>

\* "Please select at least one service!"
submit_request_none(p) ==
  /\ pc[p] = "request_housekeeping"
  /\ UNCHANGED vars

\* every ticked service is appended with its flat price
submit_request(p, ticked) ==
  /\ pc[p] = "request_housekeeping"
  /\ LET selected == Orders(HousekeepingMenu, ticked, 1)
     IN /\ selected # <<>>
        /\ Charges + Len(selected) <= MaxCharges
        /\ housekeeping' = housekeeping \o
             [k \in 1 .. Len(selected) |->
                [name |-> loc[p].name, id |-> loc[p].id, room |-> loc[p].room,
                 item |-> selected[k].item, cost |-> selected[k].price, status |-> "Pending"]]
  /\ Goto(p, "menu", NoLoc)
  /\ UNCHANGED <<rooms, customers, food_orders, services, hist>>

\* ------------------------------------------------------------------ start and exit
\* the window is closed
quit(p) ==
  /\ pc[p] = "menu"
  /\ Goto(p, "stopped", NoLoc)
  /\ UNCHANGED <<files, hist>>

\* start writing the seed rooms whatever rooms.txt holds
start_reseed(p) ==
  /\ pc[p] = "stopped"
  /\ rooms' = SeedRooms
  /\ hist' = [NoHist EXCEPT !.op = "start"]
  /\ Goto(p, "menu", NoLoc)
  /\ UNCHANGED <<customers, ledgers>>

\* the program is started: __init__ runs initialize_files, which seeds rooms.txt
\* if it is missing or empty and opens the other files for appending
start(p) ==
  /\ pc[p] = "stopped"
  /\ rooms' = IF rooms = <<>> THEN SeedRooms ELSE rooms
  /\ hist' = [NoHist EXCEPT !.op = "start"]
  /\ Goto(p, "menu", NoLoc)
  /\ UNCHANGED <<customers, ledgers>>

\* no data file exists yet and no instance is running
InitFresh ==
  /\ rooms = <<>>
  /\ customers = <<>>
  /\ food_orders = <<>>
  /\ services = <<>>
  /\ housekeeping = <<>>
  /\ pc = [p \in Procs |-> "stopped"]
  /\ loc = [p \in Procs |-> NoLoc]
  /\ hist = NoHist

\* ------------------------------------------------------------------ specifications
\* entries with the name or the ID proof left empty
Blank == {<<"", "P1">>, <<"Ann", "">>}

\* check-in and check-out, with the identities, room types and day counts typed in
Reservation(p, guests, types, nights, most) ==
  \/ \E name \in NameInputs, id_proof \in IdInputs, days \in DaysInputs, phone \in PhoneInputs :
       process_booking_invalid(p, name, id_proof, days, phone)
  \/ \E g \in guests \cup Blank, room_type \in types, days \in nights \cup {-1, 0},
        phone \in PhoneInputs :
       \/ process_booking_unavailable(p, g[1], g[2], room_type, days, phone)
       \/ process_booking_offer(p, g[1], g[2], room_type, days, phone)
  \/ process_booking_decline(p)
  \/ process_booking_append(p, most)
  \/ process_booking_write(p)
  \/ \E name \in NameInputs, id_proof \in IdInputs :
       process_checkout_invalid(p, name, id_proof)
  \/ \E g \in guests \cup Blank :
       \/ process_checkout_not_found(p, g[1], g[2])
       \/ process_checkout_scan(p, g[1], g[2])
  \/ process_checkout_write_customers(p)
  \/ process_checkout_read_rooms(p)
  \/ process_checkout_write_rooms(p)
  \/ process_checkout_bill(p)
  \/ process_checkout_done(p)
  \/ dismiss(p)

\* identity verification followed by the bill screen or one of the order screens
Verification(p, guests, screens) ==
  \/ \E name \in NameInputs, id_proof \in IdInputs : verify_invalid(p, name, id_proof)
  \/ \E g \in guests \cup Blank : verify_failed(p, g[1], g[2])
  \/ \E g \in guests \cup Blank, screen \in screens : verify(p, g[1], g[2], screen)
  \/ verify_closed(p)
  \/ view_bill(p)
  \/ back(p)

\* the spin boxes of an order screen and the check boxes of the housekeeping form
Quantities(menu, choices) == [1 .. Len(menu) -> choices]

Ordering(p) ==
  \/ place_order_none(p)
  \/ \E qty \in Quantities(FoodMenu, {0, 1}) : order_food_place_order(p, qty)
  \/ \E qty \in Quantities(ItemsMenu, {0, 2}) : order_non_food_place_order(p, qty)
  \/ submit_request_none(p)
  \/ \E ticked \in Quantities(HousekeepingMenu, {0, 1}) : submit_request(p, ticked)

\* two instances of the program on the same data files, checking in and out
Next == \E p \in Procs : Reservation(p, {<<"Ann", "P1">>, <<"Bob", "P1">>}, {"Suite"}, {1}, MaxCustomers)
Spec == Init /\ [][Next]_vars

\* one instance: every handler runs to its end before the next one starts;
\* check-in, check-out and the bill screen
NextSerial ==
  \/ Reservation(1, {<<"Ann", "P1">>, <<"ann", "P1">>, <<"Bob", "P1">>}, {"Normal", "Suite"}, Nights, MaxCustomers)
  \/ Verification(1, {<<"Ann", "P1">>, <<"ann", "P1">>, <<"Bob", "P1">>}, {"view_bill"})
SpecSerial == Init /\ [][NextSerial]_vars

\* one instance, with the bill and order screens
NextBilling ==
  \/ Reservation(1, Guests, {"Suite"}, {2}, MaxCustomers)
  \/ Verification(1, Guests, Screens)
  \/ Ordering(1)
SpecBilling == Init /\ [][NextBilling]_vars

\* one instance from its first start on, closed and started again between operations
NextRestart ==
  \/ start(1)
  \/ quit(1)
  \/ Reservation(1, {<<"Ann", "P1">>, <<"Bob", "P1">>}, {"Suite"}, {1}, MaxCustomers)
  \/ Verification(1, {<<"Ann", "P1">>, <<"Bob", "P1">>}, Screens)
  \/ Ordering(1)
SpecRestart == InitFresh /\ [][NextRestart]_vars

\* ------------------------------------------------------------------ properties
Quiescent == \A p \in Procs : pc[p] = "menu"

\* the active Occupancy records that reference room number n
Referencing(n) == {k \in 1 .. Len(customers) : customers[k].room = n}

\* the active Occupancy records of an identity
StaysOf(name, id_proof) == Hits(customers, name, id_proof)

StatusOf(n) == rooms[FirstIndex(Numbered(rooms, n))].status

\* qty x unit price summed over the lines appended to a ledger by one step
RECURSIVE LineTotals(_)
LineTotals(seq) == IF seq = <<>> THEN 0 ELSE Head(seq).qty * Head(seq).price + LineTotals(Tail(seq))
Appended(before, after) == SubSeq(after, Len(before) + 1, Len(after))

\* C1: between operations (one instance, operations one at a time) a room is
\* Booked if and only if exactly one active Occupancy record references it.
C1_BookedIffOneOccupancy ==
  Quiescent =>
    \A r \in 1 .. Len(rooms) :
      rooms[r].status = "Booked" <=> Cardinality(Referencing(rooms[r].number)) = 1

\* C2: the final bill shown by a successful check-out carries the removed
\* Occupancy's frozen roomTotal, and its grandTotal is that roomTotal plus the
\* three charge sub-totals (what the bill was just before the check-out).
C2_FinalBillUsesFrozenRoomTotal ==
  \A p \in Procs :
    pc[p] = "checkout_dialog" =>
      LET bill == loc[p].bill[1]
          stay == loc[p].data[1]
      IN /\ bill.room_total = stay.total
         /\ bill.grand_total = stay.total + bill.food_total + bill.services_total
                                 + bill.housekeeping_total

\* C3: never two active Occupancy records with names equal ignoring case and
\* equal idProof.
C3_UniqueActiveStay ==
  \A i, j \in 1 .. Len(customers) :
    i # j => ~Matches(customers[i], customers[j].name, customers[j].id)

\* C4: a check-out that directly follows a completed check-in of the same
\* identity has, once it has rewritten the inventory, left the room allocated
\* by that check-in Available and no active Occupancy record of the identity.
C4_CheckInThenCheckOut ==
  \A p \in Procs :
    ( /\ pc[p] \in {"checkout_bill", "checkout_dialog"}
      /\ hist.op = "check_in"
      /\ Matches(hist, loc[p].name, loc[p].id) )
    => /\ StatusOf(hist.room) = "Available"
       /\ StaysOf(hist.name, hist.id) = {}

\* two Occupancy records of the identity existed, the check-out followed the
\* check-in of the second one (typed with another capitalisation) and is done
C4_Witness ==
  \E p \in Procs :
    /\ pc[p] = "checkout_dialog"
    /\ hist.op = "check_in"
    /\ Matches(hist, loc[p].name, loc[p].id)
    /\ hist.name # loc[p].name
    /\ \E r \in 1 .. Len(rooms) : rooms[r].status = "Booked" /\ rooms[r].number # hist.room

\* C5: no room is referenced by two active Occupancy records, also when two
\* check-ins interleave.
C5_NoSharedRoom ==
  \A i, j \in 1 .. Len(customers) : i # j => customers[i].room # customers[j].room

\* C6: no state, between the two writes of a check-in included, has an active
\* Occupancy record whose room is Available.
C6_OccupiedRoomIsBooked ==
  \A k \in 1 .. Len(customers) : StatusOf(customers[k].room) = "Booked"

\* C7: no state has the Occupancy record of a check-out already removed while
\* its room is still Booked.
C7_RemovedStayRoomIsFree ==
  \A p \in Procs :
    pc[p] \in {"read_rooms", "write_rooms"} /\ StaysOf(loc[p].name, loc[p].id) = {}
      => StatusOf(loc[p].room) # "Booked"

\* C8: a step that appends charges from an order screen raises the bill's
\* sub-total of that ledger, and the grand total, by qty x unit price of the
\* appended lines (the flat price for housekeeping) and leaves the other
\* three sub-totals as they were.
C8_ChargeRaisesItsSubtotal ==
  [][ \A p \in Procs, name \in Names, id_proof \in IdProofs :
        ( /\ name = loc[p].name /\ id_proof = loc[p].id
          /\ pc[p] \in {"order_food", "order_non_food", "request_housekeeping"}
          /\ ledgers' # ledgers )
        => LET before == calculate_bill(name, id_proof)
               after == calculate_bill(name, id_proof)'
               f == LineTotals(Appended(food_orders, food_orders'))
               s == LineTotals(Appended(services, services'))
               h == SumCosts(Appended(housekeeping, housekeeping'))
           IN /\ f + s + h > 0
              /\ after.room_total = before.room_total
              /\ after.food_total = before.food_total + f
              /\ after.services_total = before.services_total + s
              /\ after.housekeeping_total = before.housekeeping_total + h
              /\ after.grand_total = before.grand_total + f + s + h
    ]_vars

\* an item line of quantity 2 was appended for a guest whose stay is active,
\* and the bill of that guest carries it
C8_Witness ==
  /\ Len(services) = 1
  /\ services[1].qty = 2
  /\ StaysOf(services[1].name, services[1].id) # {}
  /\ calculate_bill(services[1].name, services[1].id).services_total = 2 * services[1].price
  /\ calculate_bill(services[1].name, services[1].id).grand_total
       = calculate_bill(services[1].name, services[1].id).room_total + 2 * services[1].price

\* C9: a step that appends charges for one identity leaves the bill of every
\* different identity (another name ignoring case, or another idProof) as it was.
C9_OtherBillUnchanged ==
  [][ \A p \in Procs, g \in Guests :
        ( /\ pc[p] \in {"order_food", "order_non_food", "request_housekeeping"}
          /\ ledgers' # ledgers
          /\ Lower(g[1]) # Lower(loc[p].name) \/ g[2] # loc[p].id )
        => calculate_bill(g[1], g[2])' = calculate_bill(g[1], g[2])
    ]_vars

\* a charge was appended for one guest while a guest with the same name and
\* another idProof has an active stay, whose bill is its room total alone
C9_Witness ==
  \E k \in 1 .. Len(customers), c \in 1 .. Len(food_orders) :
    /\ Lower(customers[k].name) = Lower(food_orders[c].name)
    /\ customers[k].id # food_orders[c].id
    /\ StaysOf(food_orders[c].name, food_orders[c].id) # {}
    /\ calculate_bill(customers[k].name, customers[k].id).grand_total = customers[k].total

\* a line of a data file belongs to the identity (names compared ignoring case)
Owns(data, name, id_proof) == Lower(data.name) = Lower(name) /\ data.id = id_proof

\* the active Occupancy records of an identity, by line number
Active(name, id_proof) == {k \in 1 .. Len(customers) : Owns(customers[k], name, id_proof)}

\* a step of instance p from one place of its handlers to another
Step(p, from, to) == pc[p] = from /\ pc'[p] = to

\* C11: a check-in with an empty required field or with 0 or fewer nights is
\* rejected before any change: the step that raises its error dialog leaves
\* the inventory and the registry as they were, no check-in goes on to its
\* confirmation with such an entry, and no Occupancy record carries one.
C11_InvalidCheckInRejected ==
  [][ \A p \in Procs :
        /\ Step(p, "menu", "booking_error") => UNCHANGED <<rooms, customers>>
        /\ Step(p, "menu", "confirm_booking") =>
             loc'[p].name # "" /\ loc'[p].id # "" /\ loc'[p].days > 0
        /\ \A k \in 1 .. Len(customers') :
             customers'[k].name # "" /\ customers'[k].id # "" /\ customers'[k].days > 0
    ]_vars

\* an invalid check-in was rejected while a guest is checked in
C11_Witness ==
  \E p \in Procs :
    /\ pc[p] = "booking_error"
    /\ customers # <<>>
    /\ \E r \in 1 .. Len(rooms) : rooms[r].status = "Booked"

\* C12: a check-in for a room type fails with "no rooms available" exactly when
\* the inventory holds no Available room of that type, and the failing step
\* leaves the inventory, the registry and the three ledgers as they were.
C12_NoAvailabilityChangesNothing ==
  [][ \A p \in Procs :
        /\ Step(p, "menu", "no_rooms") =>
             /\ UNCHANGED files
             /\ \A r \in 1 .. Len(rooms) :
                  ~(rooms[r].type = loc'[p].rtype /\ rooms[r].status = "Available")
        /\ Step(p, "menu", "confirm_booking") =>
             \E r \in 1 .. Len(rooms) :
               /\ rooms[r].number = loc'[p].room
               /\ rooms[r].type = loc'[p].rtype
               /\ rooms[r].status = "Available"
    ]_vars

\* a check-in for a Suite failed while both Suites are Booked and a charge is
\* on a ledger
C12_Witness ==
  \E p \in Procs :
    /\ pc[p] = "no_rooms"
    /\ loc[p].rtype = "Suite"
    /\ Len(customers) = 2
    /\ Charges > 0

\* C13: a check-out fails with "customer not found" exactly when the identity
\* has no active Occupancy record, and the failing step leaves the inventory,
\* the registry and the three ledgers as they were.
C13_CheckOutNotFoundChangesNothing ==
  [][ \A p \in Procs :
        /\ Step(p, "menu", "checkout_not_found") =>
             /\ UNCHANGED files
             /\ Active(loc'[p].name, loc'[p].id) = {}
        /\ Step(p, "menu", "write_customers") => Active(loc'[p].name, loc'[p].id) # {}
    ]_vars

\* a check-out failed for an identity that has a charge on a ledger (left by an
\* earlier stay) while another guest is checked in
C13_Witness ==
  \E p \in Procs :
    /\ pc[p] = "checkout_not_found"
    /\ customers # <<>>
    /\ \E c \in 1 .. Len(food_orders) : Owns(food_orders[c], loc[p].name, loc[p].id)

\* C14: the bill screen is reached, and a bill computed, only for an identity
\* with an active Occupancy record; for any other identity the verification
\* fails and no bill is computed; and none of these steps changes a data file.
C14_ViewBillReadOnly ==
  [][ \A p \in Procs :
        /\ Step(p, "menu", "view_bill") =>
             UNCHANGED files /\ Active(loc'[p].name, loc'[p].id) # {}
        /\ Step(p, "view_bill", "bill_screen") =>
             /\ UNCHANGED files
             /\ Active(loc[p].name, loc[p].id) # {}
             /\ Len(loc'[p].bill) = 1
        /\ Step(p, "menu", "verify_not_found") =>
             /\ UNCHANGED files
             /\ Active(loc'[p].name, loc'[p].id) = {}
             /\ loc'[p].bill = <<>>
        /\ Step(p, "menu", "verify_error") => UNCHANGED files /\ loc'[p].bill = <<>>
        /\ pc'[p] = "menu" /\ pc[p] \in {"verify_not_found", "verify_error", "bill_screen"} =>
             UNCHANGED files
    ]_vars

\* a bill with a charge on it is on the bill screen
C14_Witness ==
  \E p \in Procs :
    /\ pc[p] = "bill_screen"
    /\ Len(loc[p].bill) = 1
    /\ loc[p].bill[1].grand_total > loc[p].bill[1].room_total
    /\ loc[p].bill[1].room_total > 0

\* C15: a confirmed check-in for a room type appends exactly one Occupancy
\* record, which references the first room in file order that has the type and
\* is Available; the write that follows marks that room Booked and leaves the
\* line of every other room as it was.
C15_FirstAvailableRoomAllocated ==
  [][ \A p \in Procs :
        /\ Step(p, "confirm_booking", "booked_dialog") =>
             /\ Len(customers') = Len(customers) + 1
             /\ SubSeq(customers', 1, Len(customers)) = customers
             /\ rooms' = rooms
             /\ loc'[p].room = customers'[Len(customers')].room
             /\ Owns(customers'[Len(customers')], loc[p].name, loc[p].id)
             /\ \E i \in 1 .. Len(rooms) :
                  /\ rooms[i].number = customers'[Len(customers')].room
                  /\ rooms[i].type = loc[p].rtype /\ rooms[i].status = "Available"
                  /\ \A j \in 1 .. i - 1 :
                       ~(rooms[j].type = loc[p].rtype /\ rooms[j].status = "Available")
        /\ Step(p, "booked_dialog", "menu") =>
             /\ customers' = customers
             /\ Len(rooms') = Len(rooms)
             /\ \A k \in 1 .. Len(rooms) :
                  rooms'[k] = IF rooms[k].number = loc[p].room
                              THEN [rooms[k] EXCEPT !.status = "Booked"] ELSE rooms[k]
    ]_vars

\* a check-in has been completed with the second Suite, the first being Booked
\* and other rooms being Available
C15_Witness ==
  /\ hist.op = "check_in"
  /\ hist.room = "302"
  /\ rooms[7].status = "Booked" /\ rooms[8].status = "Booked"
  /\ rooms[1].status = "Available"

\* b begins with a
IsPrefix(a, b) == Len(a) <= Len(b) /\ SubSeq(b, 1, Len(a)) = a

\* the elements of a, in order, are among the elements of b
RECURSIVE Subsequence(_, _)
Subsequence(a, b) ==
  IF a = <<>> THEN TRUE
  ELSE IF b = <<>> THEN FALSE
  ELSE IF Head(a) = Head(b) THEN Subsequence(Tail(a), Tail(b))
  ELSE Subsequence(a, Tail(b))

\* C16: the Occupancy record appended by a check-in has nights > 0 and
\* roomTotal = price per night of its room x nights, and every step leaves the
\* records that stay in the registry as they were: it appends a record, or
\* removes records, and rewrites no field of a record it keeps.
C16_RoomTotalFrozen ==
  [][ /\ \A p \in Procs :
           Step(p, "confirm_booking", "booked_dialog") =>
             /\ customers'[Len(customers')].days > 0
             /\ \E r \in 1 .. Len(rooms) :
                  /\ rooms[r].number = customers'[Len(customers')].room
                  /\ customers'[Len(customers')].total
                       = rooms[r].price * customers'[Len(customers')].days
      /\ \/ customers' = customers
         \/ IsPrefix(customers, customers') /\ Len(customers') <= Len(customers) + 1
         \/ Subsequence(customers', customers)
    ]_vars

\* a record of two nights at twice the price of its room is still in the
\* registry after a later check-in and a check-out of another guest
C16_Witness ==
  /\ Len(customers) = 1
  /\ customers[1].days = 2
  /\ customers[1].total = 2000
  /\ customers[1].room = "102"
  /\ rooms[1].status = "Available"
  /\ Quiescent

\* C17: a check-out leaves the registry as it was before with exactly one
\* record deleted, the first in file order that matches the identity, and the
\* other records in their order.
C17_CheckOutRemovesFirstMatch ==
  [][ \A p \in Procs :
        Step(p, "write_customers", "read_rooms") =>
          \E i \in Active(loc[p].name, loc[p].id) :
            /\ \A j \in Active(loc[p].name, loc[p].id) : i <= j
            /\ customers' = SubSeq(customers, 1, i - 1) \o SubSeq(customers, i + 1, Len(customers))
    ]_vars

\* C18: in every step of every operation, the check-out included, each of the
\* three ledgers keeps its lines: what it held before is a prefix of what it
\* holds after.
C18_LedgersAppendOnly ==
  [][ /\ IsPrefix(food_orders, food_orders')
      /\ IsPrefix(services, services')
      /\ IsPrefix(housekeeping, housekeeping')
    ]_vars

\* a check-out is done, the guest has no active stay left and a charge of the
\* guest is still on a ledger
C18_Witness ==
  \E p \in Procs :
    /\ pc[p] = "checkout_dialog"
    /\ Active(loc[p].name, loc[p].id) = {}
    /\ \/ \E c \in 1 .. Len(food_orders) : Owns(food_orders[c], loc[p].name, loc[p].id)
       \/ \E c \in 1 .. Len(services) : Owns(services[c], loc[p].name, loc[p].id)
       \/ \E c \in 1 .. Len(housekeeping) : Owns(housekeeping[c], loc[p].name, loc[p].id)

\* the line totals of the first k lines of a ledger that belong to the identity
RECURSIVE OwnAmount(_, _, _, _)
OwnAmount(lines, k, name, id_proof) ==
  IF k = 0 THEN 0
  ELSE OwnAmount(lines, k - 1, name, id_proof)
         + (IF Owns(lines[k], name, id_proof) THEN lines[k].total ELSE 0)

\* the flat costs of the first k housekeeping lines that belong to the identity
RECURSIVE OwnCost(_, _, _, _)
OwnCost(lines, k, name, id_proof) ==
  IF k = 0 THEN 0
  ELSE OwnCost(lines, k - 1, name, id_proof)
         + (IF Owns(lines[k], name, id_proof) THEN lines[k].cost ELSE 0)

\* the bill of an identity sums each ledger over the lines of the identity
SumsOwnLines(bill, name, id_proof) ==
  /\ bill.food_total = OwnAmount(food_orders, Len(food_orders), name, id_proof)
  /\ bill.services_total = OwnAmount(services, Len(services), name, id_proof)
  /\ bill.housekeeping_total = OwnCost(housekeeping, Len(housekeeping), name, id_proof)
  /\ bill.grand_total = bill.room_total + bill.food_total + bill.services_total
                          + bill.housekeeping_total

FirstStayBilled(bill, name, id_proof) ==
  IF Active(name, id_proof) = {}
  THEN bill.room_total = 0 /\ bill.room_items = <<>>
  ELSE \E i \in Active(name, id_proof) :
         /\ \A j \in Active(name, id_proof) : i <= j
         /\ bill.room_total = customers[i].total
         /\ Len(bill.room_items) = 1
         /\ bill.room_items[1].amount = customers[i].total
         /\ bill.room_items[1].nights = customers[i].days
         /\ bill.room_items[1].type = customers[i].type

\* C20: the room total of a bill is the frozen roomTotal of the first active
\* Occupancy record in file order that matches the identity, shown as exactly
\* one room line item; with no matching record the room total is 0 and the
\* bill has no room line item.
C20_BillRoomIsFirstStay ==
  /\ \A name \in Names, id_proof \in IdProofs :
       FirstStayBilled(calculate_bill(name, id_proof), name, id_proof)
  /\ \A p \in Procs :
       pc[p] \in {"bill_screen", "checkout_dialog"} =>
         FirstStayBilled(loc[p].bill[1], loc[p].name, loc[p].id)

\* the bill on the screen is that of an identity with two active Occupancy
\* records of different roomTotals, and it carries the first one
C20_Witness ==
  \E p \in Procs :
    /\ pc[p] = "bill_screen"
    /\ Cardinality(Active(loc[p].name, loc[p].id)) = 2
    /\ customers[1].total # customers[2].total
    /\ loc[p].bill[1].room_total = customers[1].total

\* C21: with one instance (operations one at a time) no room is ever referenced
\* by two active Occupancy records, and the room of the record that a check-in
\* appends has status Available in the inventory at that moment.
C21_NoDoubleBookingSerial ==
  [][ /\ \A i, j \in 1 .. Len(customers') :
           i # j => customers'[i].room # customers'[j].room
      /\ \A p \in Procs :
           Step(p, "confirm_booking", "booked_dialog") =>
             \E r \in 1 .. Len(rooms) :
               /\ rooms[r].number = customers'[Len(customers')].room
               /\ rooms[r].status = "Available"
    ]_vars

\* two guests hold the two Suites, one room each, while a Normal room is Booked too
C21_Witness ==
  /\ Quiescent
  /\ Len(customers) = 2
  /\ customers[1].type = "Suite" /\ customers[2].type = "Suite"
  /\ customers[1].room # customers[2].room
  /\ \E r \in 1 .. Len(rooms) : rooms[r].type = "Normal" /\ rooms[r].status = "Booked"

\* C22: no step adds or removes a line of the inventory or changes the number,
\* type or price of a room; the inventory changes only in the rewrite of
\* rooms.txt by a confirmed check-in or by a check-out that found its guest, and
\* the registry only in the append or rewrite of customers.txt by these two:
\* charge appends, bill computations and failed operations change neither.
C22_InventoryFrame ==
  [][ /\ Len(rooms') = Len(rooms)
      /\ \A k \in 1 .. Len(rooms) :
           /\ rooms'[k].number = rooms[k].number
           /\ rooms'[k].type = rooms[k].type
           /\ rooms'[k].price = rooms[k].price
      /\ rooms' # rooms =>
           \E p \in Procs : Step(p, "booked_dialog", "menu") \/ Step(p, "write_rooms", "checkout_bill")
      /\ customers' # customers =>
           \E p \in Procs :
             Step(p, "confirm_booking", "booked_dialog") \/ Step(p, "write_customers", "read_rooms")
      /\ ledgers' # ledgers => UNCHANGED <<rooms, customers>>
      /\ \A p \in Procs :
           pc'[p] \in {"bill_screen", "checkout_dialog", "booking_error", "no_rooms",
                       "checkout_error", "checkout_not_found", "verify_error", "verify_not_found"}
             => UNCHANGED <<rooms, customers>>
    ]_vars

\* a bill is on the screen, a charge is on a ledger, a room is Booked and the
\* inventory is the seed but for the status fields
C22_Witness ==
  /\ \E p \in Procs : pc[p] = "bill_screen"
  /\ Charges > 0
  /\ \E r \in 1 .. Len(rooms) : rooms[r].status = "Booked"
  /\ Len(rooms) = Len(SeedRooms)
  /\ \A k \in 1 .. Len(rooms) : [rooms[k] EXCEPT !.status = "Available"] = SeedRooms[k]

\* the three charge sub-totals of a bill
ChargeTotals(bill) == <<bill.food_total, bill.services_total, bill.housekeeping_total>>

\* C23: the charges of an identity outlive its stay: a step that removes or
\* appends Occupancy records (a check-out, a later check-in) leaves the three
\* charge sub-totals of every identity's bill as they were, and the bill shown
\* for a stay carries the line totals of all ledger lines of the identity,
\* those written during an earlier stay included.
C23_ChargesOutliveStay ==
  [][ /\ customers' # customers =>
           \A name \in Names, id_proof \in IdProofs :
             ChargeTotals(calculate_bill(name, id_proof))'
               = ChargeTotals(calculate_bill(name, id_proof))
      /\ \A p \in Procs :
           Step(p, "view_bill", "bill_screen") =>
             /\ loc'[p].bill[1].food_total
                  = OwnAmount(food_orders, Len(food_orders), loc[p].name, loc[p].id)
             /\ loc'[p].bill[1].services_total
                  = OwnAmount(services, Len(services), loc[p].name, loc[p].id)
             /\ loc'[p].bill[1].housekeeping_total
                  = OwnCost(housekeeping, Len(housekeeping), loc[p].name, loc[p].id)
             /\ loc'[p].bill[1].grand_total
                  = loc'[p].bill[1].room_total + loc'[p].bill[1].food_total
                      + loc'[p].bill[1].services_total + loc'[p].bill[1].housekeeping_total
    ]_vars

\* the bill on the screen is that of a guest whose only active stay is in another
\* room than the one a ledger line of the guest was charged to (the stay of that
\* line has been checked out), and the bill carries the line
C23_Witness ==
  \E p \in Procs :
    /\ pc[p] = "bill_screen"
    /\ Cardinality(Active(loc[p].name, loc[p].id)) = 1
    /\ Len(food_orders) = 1
    /\ Owns(food_orders[1], loc[p].name, loc[p].id)
    /\ \A k \in Active(loc[p].name, loc[p].id) : customers[k].room # food_orders[1].room
    /\ loc[p].bill[1].food_total = food_orders[1].total
    /\ loc[p].bill[1].grand_total = loc[p].bill[1].room_total + food_orders[1].total

\* the line was written for an identity with an active Occupancy record, and
\* carries the room of the first such record
OwnedByActiveStay(line) ==
  \E i \in Active(line.name, line.id) :
    /\ \A j \in Active(line.name, line.id) : i <= j
    /\ line.room = customers[i].room

\* C24: with one instance, every line appended to a ledger is appended for an
\* identity that has an active Occupancy record at that moment, and its room
\* field is the room of that record (of the first one in file order, if the
\* identity has several).
C24_ChargeOwnedByActiveStay ==
  [][ /\ \A c \in Len(food_orders) + 1 .. Len(food_orders') : OwnedByActiveStay(food_orders'[c])
      /\ \A c \in Len(services) + 1 .. Len(services') : OwnedByActiveStay(services'[c])
      /\ \A c \in Len(housekeeping) + 1 .. Len(housekeeping') : OwnedByActiveStay(housekeeping'[c])
    ]_vars

\* a housekeeping line was written for a guest with two active stays and carries
\* the room of the first one
C24_Witness ==
  /\ Len(housekeeping) = 1
  /\ Cardinality(Active(housekeeping[1].name, housekeeping[1].id)) = 2
  /\ housekeeping[1].room = customers[1].room
  /\ customers[1].room # customers[2].room

\* the lines of an inventory with the type, the price and the status
Stock(lines, room_type, price, status) ==
  {k \in 1 .. Len(lines) :
     lines[k].type = room_type /\ lines[k].price = price /\ lines[k].status = status}

\* C25: a start of the program seeds the inventory only if rooms.txt is missing
\* or empty, with exactly 3 Normal rooms at 1000, 3 Deluxe at 1800 and 2 Suite
\* at 3000, all Available; with a non-empty rooms.txt it leaves the inventory,
\* the registry and the three ledgers as they are.
C25_SeedOnlyOnFirstStart ==
  [][ \A p \in Procs :
        Step(p, "stopped", "menu") =>
          /\ UNCHANGED <<customers, food_orders, services, housekeeping>>
          /\ IF rooms = <<>>
             THEN /\ Len(rooms') = 8
                  /\ Cardinality(Stock(rooms', "Normal", 1000, "Available")) = 3
                  /\ Cardinality(Stock(rooms', "Deluxe", 1800, "Available")) = 3
                  /\ Cardinality(Stock(rooms', "Suite", 3000, "Available")) = 2
                  /\ \A i, j \in 1 .. Len(rooms') : i # j => rooms'[i].number # rooms'[j].number
             ELSE rooms' = rooms
    ]_vars

\* the program has been started again while a guest is checked in, a room is
\* Booked and a charge is on a ledger
C25_Witness ==
  /\ hist.op = "start"
  /\ customers # <<>>
  /\ Charges > 0
  /\ \E r \in 1 .. Len(rooms) : rooms[r].status = "Booked"

\* C26: the rewrite of rooms.txt by a check-out marks Available every room
\* referenced by an Occupancy record that the check-out has removed from the
\* registry, and leaves the line of every other room as it was.
C26_CheckOutFreesRemovedRooms ==
  [][ \A p \in Procs :
        Step(p, "write_rooms", "checkout_bill") =>
          /\ Len(rooms') = Len(rooms)
          /\ \A k \in 1 .. Len(rooms) :
               IF rooms[k].number \in hist.removed
               THEN rooms'[k].status = "Available"
               ELSE rooms'[k] = rooms[k]
    ]_vars

\* the room that a check-out for the identity marks Available: freed_room, the
\* room of the last matching line of customers.txt
FreedBy(name, id_proof) ==
  {customers[k].room : k \in {n \in Active(name, id_proof) : \A j \in Active(name, id_proof) : j <= n}}

\* C27: between operations (one instance) every Booked room can be made
\* Available again: some identity with an active stay exists whose check-out
\* marks that room Available.
C27_BookedRoomCanBeFreed ==
  Quiescent =>
    \A r \in 1 .. Len(rooms) :
      rooms[r].status = "Booked" =>
        \E name \in Names, id_proof \in IdProofs :
          Active(name, id_proof) # {} /\ rooms[r].number \in FreedBy(name, id_proof)

\* C28: when a check-in writes back the inventory, a room that it read as Booked
\* and that is Available in rooms.txt by now (a check-out of another instance
\* freed it in between) is still Available afterwards, unless it is the room
\* the check-in allocated.
C28_NoLostUpdate ==
  [][ \A p \in Procs :
        Step(p, "booked_dialog", "menu") =>
          \A k \in 1 .. Len(rooms) :
            ( /\ rooms[k].status = "Available"
              /\ rooms[k].number # loc[p].room
              /\ \E j \in 1 .. Len(loc[p].lines) :
                   /\ loc[p].lines[j].number = rooms[k].number
                   /\ loc[p].lines[j].status = "Booked" )
            => rooms'[k].status = "Available"
    ]_vars

\* C29: for a check-out that has scanned customers.txt, the room it is about to
\* free and the record it reports are the room that get_customer_room reports
\* for the identity and the record that calculate_bill bills.
C29_SameStayEverywhere ==
  \A p \in Procs :
    pc[p] = "write_customers" =>
      /\ get_customer_room(loc[p].name, loc[p].id) = loc[p].room
      /\ calculate_bill(loc[p].name, loc[p].id).room_total = loc[p].data[1].total
      /\ calculate_bill(loc[p].name, loc[p].id).room_items[1].nights = loc[p].data[1].days
      /\ calculate_bill(loc[p].name, loc[p].id).room_items[1].type = loc[p].data[1].type

\* room number n is the first room in file order with the type and status Available
FirstAvailable(lines, room_type, n) ==
  \E i \in 1 .. Len(lines) :
    /\ lines[i].number = n
    /\ lines[i].type = room_type /\ lines[i].status = "Available"
    /\ \A j \in 1 .. i - 1 : ~(lines[j].type = room_type /\ lines[j].status = "Available")

\* C30: with one instance, declining the offered booking changes no file (no
\* Occupancy record is appended, no room changes status), and the declined
\* room is offered again by the next check-in for the type: it is still the
\* first Available room of its type, which is the room every check-in offers.
C30_DeclineChangesNothing ==
  [][ \A p \in Procs :
        /\ Step(p, "confirm_booking", "booking_declined") =>
             /\ UNCHANGED files
             /\ loc'[p].room = loc[p].room /\ loc'[p].rtype = loc[p].rtype
             /\ FirstAvailable(rooms', loc[p].rtype, loc[p].room)
        /\ Step(p, "booking_declined", "menu") => UNCHANGED files
        /\ Step(p, "menu", "confirm_booking") =>
             FirstAvailable(rooms, loc'[p].rtype, loc'[p].room)
    ]_vars

\* the offer of the second Normal room has been declined while the first one
\* is taken by a guest
C30_Witness ==
  \E p \in Procs :
    /\ pc[p] = "booking_declined"
    /\ loc[p].room = "102"
    /\ Len(customers) = 1
    /\ customers[1].room = "101"
    /\ rooms[2].status = "Available"

====
